---------------------------- MODULE Spec2Model ----------------------------
(***************************************************************************)
(* Overlapping-model Wave Function Collapse (Loethor/wfc-ts).              *)
(*                                                                         *)
(*   TileExtractor.generate   src/src/tileExtractor.ts                     *)
(*   TileSet (adjacency)      src/src/tileSet.ts                           *)
(*   WFCGenerator (solver)    src/src/wfcGenerator.ts, the backtracking    *)
(*                            class that starts at line 398                *)
(*                                                                         *)
(*   AppController            src/src/appController.ts                     *)
(*                                                                         *)
(* Six specifications share the variables:                                 *)
(*   SpecTiles         sample -> TileExtractor.generate -> new TileSet     *)
(*   Spec              WFCGenerator.generate() on a tile set and a grid    *)
(*   SpecObserved      generate(onProgress, onVisualize)                   *)
(*   SpecCheckerboard  generate() on the 4 x 4 grid with the checkerboard  *)
(*                     tiles, followed through its first collapses         *)
(*   SpecRollback      generate() on three rows, followed through its      *)
(*                     first rollbacks                                     *)
(*   SpecApp           AppController: clicks on the two buttons            *)
(***************************************************************************)
EXTENDS Integers, Sequences, FiniteSets, TLC

VARIABLES
    sample,               \* the sample raster as read from mainCanvas
    tileSize,             \* N
    tiles,                \* Tile[] : sequence of pixelData.data arrays, id = index - 1
    tileFrequencies,      \* Map<number, number>
    adjacencyRules,       \* TileSet.neighbors / WFCGenerator.adjacencyRules
    gridWidth, gridHeight,
    grid,                 \* Cell[][] indexed grid[y][x]
    history,              \* HistoryEntry[]
    snapshots,            \* GridSnapshot[]
    recentContradictions,
    attempt, iteration, backtracks,
    cur,                  \* the cell chosen by the running loop iteration
    pc,                   \* position in the running operation
    isGenerating,         \* AppController.isGenerating
    currentTileSet,       \* AppController.currentTileSet: set or null
    generateWfcBtn,       \* its disabled flag and textContent
    outputSizeInput,      \* outputSizeInput.value
    wfcOutput,            \* what wfcOutputDiv shows
    calls,                \* the calls of generateWFC: position and outcome
    generators            \* the number of WFCGenerator objects created

vars == << sample, tileSize, tiles, tileFrequencies, adjacencyRules,
           gridWidth, gridHeight, grid, history, snapshots,
           recentContradictions, attempt, iteration, backtracks, cur, pc,
           isGenerating, currentTileSet, generateWfcBtn, outputSizeInput,
           wfcOutput, calls, generators >>

appVars == << isGenerating, currentTileSet, generateWfcBtn, outputSizeInput,
              wfcOutput, calls, generators >>

-----------------------------------------------------------------------------
(* Bounds of the model *)

MaxSampleWidth == 2
MaxSampleHeight == 2
MaxTileSize == 3
MaxWidth == 4
MaxHeight == 2
MaxCells == 6
\* Width of the one-row grid on which snapshots are saved and restored
LongRowWidth == 14

-----------------------------------------------------------------------------
(* Generic helpers *)

Null == -1

Min(a, b) == IF a < b THEN a ELSE b
Max(a, b) == IF a > b THEN a ELSE b

RECURSIVE SortedSeq(_)
\* The elements of a finite set of integers in ascending order.
SortedSeq(S) ==
    IF S = {} THEN << >>
    ELSE LET m == CHOOSE a \in S : \A b \in S : a <= b
         IN  << m >> \o SortedSeq(S \ {m})

-----------------------------------------------------------------------------
(* Pixels and samples.  A pixel is four 8-bit channels; ImageData.data is   *)
(* the flat row-major sequence of channels.                                *)

PixR == << 255, 0, 0, 255 >>
PixG == << 0, 255, 0, 255 >>
PixB == << 0, 0, 255, 255 >>
PixT == << 1, 11, 0, 255 >>      \* with PixU: same digits, other grouping
PixU == << 11, 1, 0, 255 >>
PixA == << 255, 0, 0, 254 >>     \* PixR but for the alpha channel

\* The pixels samples are drawn from: two colours that differ in the alpha
\* channel only
Palette == { PixR, PixA }

RECURSIVE Flatten(_)
Flatten(pixels) ==
    IF pixels = << >> THEN << >>
    ELSE Head(pixels) \o Flatten(Tail(pixels))

\* An image of w x h pixels given row-major.
Image(w, h, pixels) == [ width |-> w, height |-> h, data |-> Flatten(pixels) ]

\* CanvasRenderingContext2D.getImageData(px, py, 1, 1).data
GetPixel(img, px, py) ==
    LET idx == (py * img.width + px) * 4
    IN  << img.data[idx + 1], img.data[idx + 2], img.data[idx + 3], img.data[idx + 4] >>

-----------------------------------------------------------------------------
(* Strings are sequences of characters                                     *)

DigitChars == << "0", "1", "2", "3", "4", "5", "6", "7", "8", "9" >>

RECURSIVE NumToString(_)
\* Number.prototype.toString() of a non-negative integer
NumToString(n) ==
    IF n < 10 THEN << DigitChars[n + 1] >>
    ELSE NumToString(n \div 10) \o << DigitChars[(n % 10) + 1] >>

RECURSIVE JoinFrom(_, _, _)
\* The elements lo .. hi of parts with ',' between them
JoinFrom(parts, lo, hi) ==
    IF lo > hi THEN << >>
    ELSE IF lo = hi THEN parts[lo]
    ELSE LET mid == (lo + hi) \div 2
         IN  JoinFrom(parts, lo, mid) \o << "," >> \o JoinFrom(parts, mid + 1, hi)

\* parts.join(',') for an array of strings
Join(parts) == JoinFrom(parts, 1, Len(parts))

\* numbers.join(',') for an array of numbers (each element is stringified)
JoinNumbers(nums) == Join([ i \in 1..Len(nums) |-> NumToString(nums[i]) ])

-----------------------------------------------------------------------------
(* TileExtractor.generate (tileExtractor.ts 58-98, 121, 146-178)            *)

\* The window read with the coordinates clamped to the last column and row
\* instead of wrapped
WindowClamped(img, N, x, y) ==
    Flatten([ k \in 1..(N * N) |->
                LET dy == (k - 1) \div N
                    dx == (k - 1) % N
                IN  GetPixel(img, Min(x + dx, img.width - 1), Min(y + dy, img.height - 1)) ])

\* Lines 72-79: the N x N window at origin (x, y), read with toroidal wrap
\* and written to tempCanvas at (dx, dy); the result is tempCanvas's data.
Window(img, N, x, y) ==
    Flatten([ k \in 1..(N * N) |->
                LET dy == (k - 1) \div N
                    dx == (k - 1) % N
                IN  GetPixel(img, (x + dx) % img.width, (y + dy) % img.height) ])

\* Lines 81-91 and 156-166: the hash of a canvas, one string per channel
\* joined with ','.
HashOf(data) == JoinNumbers(data)

\* frequencyMap.get(hash) || 0
FreqGet(frequencyMap, hash) ==
    IF hash \in DOMAIN frequencyMap THEN frequencyMap[hash] ELSE 0

\* Map.prototype.set
MapSet(m, k, v) == (k :> v) @@ m

EmptyMap == [ a \in {} |-> 0 ]

RECURSIVE ScanFrom(_, _, _, _, _, _)
\* The scan with the frequency counted only when a tile is first seen
ScanFromCountingNewTiles(img, N, k, seen, frequencyMap, tileList) ==
    IF k >= img.width * img.height
    THEN [ seen |-> seen, frequencyMap |-> frequencyMap, tiles |-> tileList ]
    ELSE LET y == k \div img.width
             x == k % img.width
             tempCanvas == Window(img, N, x, y)
             hash == HashOf(tempCanvas)
         IN  IF hash \in seen
             THEN ScanFrom(img, N, k + 1, seen, frequencyMap, tileList)
             ELSE ScanFrom(img, N, k + 1, seen \cup {hash},
                           MapSet(frequencyMap, hash, 1),
                           Append(tileList, tempCanvas))

\* The scan with each new tile put at the front of the tile list
ScanFromNewestFirst(img, N, k, seen, frequencyMap, tileList) ==
    IF k >= img.width * img.height
    THEN [ seen |-> seen, frequencyMap |-> frequencyMap, tiles |-> tileList ]
    ELSE LET y == k \div img.width
             x == k % img.width
             tempCanvas == Window(img, N, x, y)
             hash == HashOf(tempCanvas)
             fm == MapSet(frequencyMap, hash, FreqGet(frequencyMap, hash) + 1)
         IN  IF hash \in seen
             THEN ScanFrom(img, N, k + 1, seen, fm, tileList)
             ELSE ScanFrom(img, N, k + 1, seen \cup {hash}, fm,
                           << tempCanvas >> \o tileList)

\* The scan without the check of seen: every window becomes a tile
ScanFromKeepingDuplicates(img, N, k, seen, frequencyMap, tileList) ==
    IF k >= img.width * img.height
    THEN [ seen |-> seen, frequencyMap |-> frequencyMap, tiles |-> tileList ]
    ELSE LET y == k \div img.width
             x == k % img.width
             tempCanvas == Window(img, N, x, y)
             hash == HashOf(tempCanvas)
             fm == MapSet(frequencyMap, hash, FreqGet(frequencyMap, hash) + 1)
         IN  ScanFrom(img, N, k + 1, seen \cup {hash}, fm,
                      Append(tileList, tempCanvas))

\* Lines 61-142: the scan over all origins, y outer and x inner; k counts the
\* origins already visited.
ScanFrom(img, N, k, seen, frequencyMap, tileList) ==
    IF k >= img.width * img.height
    THEN [ seen |-> seen, frequencyMap |-> frequencyMap, tiles |-> tileList ]
    ELSE LET y == k \div img.width
             x == k % img.width
             tempCanvas == Window(img, N, x, y)
             hash == HashOf(tempCanvas)
             fm == MapSet(frequencyMap, hash, FreqGet(frequencyMap, hash) + 1)
         IN  IF hash \in seen
             THEN ScanFrom(img, N, k + 1, seen, fm, tileList)
             ELSE ScanFrom(img, N, k + 1, seen \cup {hash}, fm,
                           Append(tileList, tempCanvas))

RECURSIVE HashToIdFrom(_, _, _)
\* Lines 151-168: hashToId.set(hash, i) for i = 0 .. tiles.length - 1
HashToIdFrom(tileList, i, hashToId) ==
    IF i >= Len(tileList) THEN hashToId
    ELSE HashToIdFrom(tileList, i + 1, MapSet(hashToId, HashOf(tileList[i + 1]), i))

RECURSIVE TileIdFrequenciesFrom(_, _, _, _)
\* Lines 172-176: the loop over the entries of frequencyMap that have an id
TileIdFrequenciesFrom(hashes, frequencyMap, hashToId, tileIdFrequencies) ==
    IF hashes = {} THEN tileIdFrequencies
    ELSE LET hash == CHOOSE h \in hashes : TRUE
         IN  TileIdFrequenciesFrom(hashes \ {hash}, frequencyMap, hashToId,
                 MapSet(tileIdFrequencies, hashToId[hash], frequencyMap[hash]))

\* Lines 171-176: frequencies keyed by tile id
TileIdFrequencies(frequencyMap, hashToId) ==
    TileIdFrequenciesFrom((DOMAIN frequencyMap) \cap (DOMAIN hashToId),
                          frequencyMap, hashToId, EmptyMap)

\* The value the promise resolves with (line 178)
ExtractorGenerate(img, N) ==
    LET scan == ScanFrom(img, N, 0, {}, EmptyMap, << >>)
        hashToId == HashToIdFrom(scan.tiles, 0, EmptyMap)
    IN  [ tiles |-> scan.tiles,
          frequencies |-> TileIdFrequencies(scan.frequencyMap, hashToId) ]

-----------------------------------------------------------------------------
(* TileSet (tileSet.ts)                                                    *)

Directions == { "up", "down", "left", "right" }

RECURSIVE SlabFrom(_, _, _, _, _, _, _)
\* The body shared by the four loops of precomputeOverlapSignatures: rows
\* r0 .. r1-1 outer, columns c0 .. c1-1 inner, four channels pushed per pixel.
SlabFrom(data, N, r, r1, c, c0, c1) ==
    IF r >= r1 THEN << >>
    ELSE IF c >= c1 THEN SlabFrom(data, N, r + 1, r1, c0, c0, c1)
    ELSE LET idx == (r * N + c) * 4
         IN  << data[idx + 1], data[idx + 2], data[idx + 3], data[idx + 4] >>
             \o SlabFrom(data, N, r, r1, c + 1, c0, c1)

\* Lines 54-62: columns 1 .. tileSize-1, all rows
RightOverlap(data, N) == JoinNumbers(SlabFrom(data, N, 0, N, 1, 1, N))
\* Lines 64-72: columns 0 .. tileSize-2, all rows
LeftOverlap(data, N) == JoinNumbers(SlabFrom(data, N, 0, N, 0, 0, N - 1))
\* Lines 74-82: rows 1 .. tileSize-1, all columns
DownOverlap(data, N) == JoinNumbers(SlabFrom(data, N, 1, N, 0, 0, N))
\* Lines 84-92: rows 0 .. tileSize-2, all columns
UpOverlap(data, N) == JoinNumbers(SlabFrom(data, N, 0, N - 1, 0, 0, N))

\* Lines 46-94: the signatures of one tile
OverlapSignatures(data, N) ==
    [ rightOverlap |-> RightOverlap(data, N),
      leftOverlap  |-> LeftOverlap(data, N),
      downOverlap  |-> DownOverlap(data, N),
      upOverlap    |-> UpOverlap(data, N) ]

RECURSIVE SignaturesFrom(_, _, _, _)
\* Lines 45-95: the loop over the tiles; the tile at index i has id i
SignaturesFrom(tileList, N, i, overlapSignatures) ==
    IF i >= Len(tileList) THEN overlapSignatures
    ELSE SignaturesFrom(tileList, N, i + 1,
                        MapSet(overlapSignatures, i, OverlapSignatures(tileList[i + 1], N)))

\* Lines 40-96: overlapSignatures, keyed by tile id
precomputeOverlapSignatures(tileList, N) == SignaturesFrom(tileList, N, 0, EmptyMap)

\* The rules of tile a with the left rule comparing the two left signatures
NeighborRulesLeftWithLeft(ids, sig, a) ==
    [ up    |-> { b \in ids : sig[a].upOverlap = sig[b].downOverlap },
      down  |-> { b \in ids : sig[a].downOverlap = sig[b].upOverlap },
      left  |-> { b \in ids : sig[a].leftOverlap = sig[b].leftOverlap },
      right |-> { b \in ids : sig[a].rightOverlap = sig[b].leftOverlap } ]

\* The rules of tile a compared with the other tiles only
NeighborRulesSkippingSelf(ids, sig, a) ==
    [ up    |-> { b \in ids \ {a} : sig[a].upOverlap = sig[b].downOverlap },
      down  |-> { b \in ids \ {a} : sig[a].downOverlap = sig[b].upOverlap },
      left  |-> { b \in ids \ {a} : sig[a].leftOverlap = sig[b].rightOverlap },
      right |-> { b \in ids \ {a} : sig[a].rightOverlap = sig[b].leftOverlap } ]

\* Lines 107-146: the rules of tile a, from the loop over every tile b
NeighborRules(ids, sig, a) ==
    [ up    |-> { b \in ids : sig[a].upOverlap = sig[b].downOverlap },
      down  |-> { b \in ids : sig[a].downOverlap = sig[b].upOverlap },
      left  |-> { b \in ids : sig[a].leftOverlap = sig[b].rightOverlap },
      right |-> { b \in ids : sig[a].rightOverlap = sig[b].leftOverlap } ]

RECURSIVE NeighborsFrom(_, _, _, _)
\* Lines 106-147: the loop over tileA
NeighborsFrom(tileList, sig, i, neighbors) ==
    IF i >= Len(tileList) THEN neighbors
    ELSE NeighborsFrom(tileList, sig, i + 1,
                       MapSet(neighbors, i, NeighborRules(0..(Len(tileList) - 1), sig, i)))

\* Lines 102-149: neighbors, keyed by tile id
computeNeighbors(tileList, sig) == NeighborsFrom(tileList, sig, 0, EmptyMap)

\* Lines 28-33: new TileSet(tiles).neighbors
TileSetNeighbors(tileList, N) ==
    computeNeighbors(tileList, precomputeOverlapSignatures(tileList, N))

\* Line 987-995 of wfcGenerator.ts
getOppositeDirection(direction) ==
    CASE direction = "up" -> "down"
      [] direction = "down" -> "up"
      [] direction = "left" -> "right"
      [] direction = "right" -> "left"

-----------------------------------------------------------------------------
(* WFCGenerator: grid and helpers (wfcGenerator.ts, class at line 398)     *)

TileIds == 0..(Len(tiles) - 1)

\* Lines 517-532
initializeGrid ==
    [ y \in 0..(gridHeight - 1) |->
        [ x \in 0..(gridWidth - 1) |->
            [ x |-> x, y |-> y, collapsed |-> FALSE, tileId |-> Null,
              possibleTiles |-> TileIds ] ] ]

Pos(x, y) == [ x |-> x, y |-> y ]

AllPos == { Pos(x, y) : x \in 0..(gridWidth - 1), y \in 0..(gridHeight - 1) }

\* Lines 1053-1070: neighbours in the order up, down, left, right
getNeighbors(c) ==
    (IF c.y > 0 THEN << [ direction |-> "up", x |-> c.x, y |-> c.y - 1 ] >> ELSE << >>)
    \o (IF c.y < gridHeight - 1
        THEN << [ direction |-> "down", x |-> c.x, y |-> c.y + 1 ] >> ELSE << >>)
    \o (IF c.x > 0 THEN << [ direction |-> "left", x |-> c.x - 1, y |-> c.y ] >> ELSE << >>)
    \o (IF c.x < gridWidth - 1
        THEN << [ direction |-> "right", x |-> c.x + 1, y |-> c.y ] >> ELSE << >>)

\* getContradictionCell looking at the collapsed cells instead of the others
getContradictionCellAmongCollapsed(g) ==
    \E p \in AllPos : g[p.y][p.x].collapsed /\ g[p.y][p.x].possibleTiles = {}

\* Lines 1075-1085 (as a predicate: a contradiction cell exists)
getContradictionCell(g) ==
    \E p \in AllPos : ~g[p.y][p.x].collapsed /\ g[p.y][p.x].possibleTiles = {}

\* Lines 1105-1114
isFullyCollapsed(g) == \A p \in AllPos : g[p.y][p.x].collapsed

\* Lines 435-448: connectivity + 1
computeTileWeights ==
    [ t \in TileIds |->
        Cardinality(adjacencyRules[t].up) + Cardinality(adjacencyRules[t].down)
        + Cardinality(adjacencyRules[t].left) + Cardinality(adjacencyRules[t].right) + 1 ]

\* Lines 454-458: tileFrequencies.get(tileId) || 1
getFrequencyWeight(tileId) ==
    IF tileId \in DOMAIN tileFrequencies /\ tileFrequencies[tileId] # 0
    THEN tileFrequencies[tileId] ELSE 1

RECURSIVE FilterSeq(_, _, _)
\* The entries n of a neighbour list with ~collapsed and (x, y) not in visited
FilterSeq(g, ns, visited) ==
    IF ns = << >> THEN << >>
    ELSE LET n == Head(ns)
         IN  (IF ~g[n.y][n.x].collapsed /\ Pos(n.x, n.y) \notin visited
              THEN << Pos(n.x, n.y) >> ELSE << >>)
             \o FilterSeq(g, Tail(ns), visited)

RECURSIVE ValidFrom(_, _, _)
\* The loop over the neighbours reading the neighbour's rules in the direction
\* of the neighbour instead of the opposite one
ValidFromSameDirection(g, ns, validTiles) ==
    IF ns = << >> THEN validTiles
    ELSE LET n == Head(ns)
             nb == g[n.y][n.x]
         IN  IF ~nb.collapsed \/ nb.tileId = Null
             THEN ValidFrom(g, Tail(ns), validTiles)
             ELSE ValidFrom(g, Tail(ns),
                    { t \in validTiles : t \in adjacencyRules[nb.tileId][n.direction] })

\* Lines 964-979: the loop over the neighbours of the cell
ValidFrom(g, ns, validTiles) ==
    IF ns = << >> THEN validTiles
    ELSE LET n == Head(ns)
             nb == g[n.y][n.x]
         IN  IF ~nb.collapsed \/ nb.tileId = Null
             THEN ValidFrom(g, Tail(ns), validTiles)
             ELSE ValidFrom(g, Tail(ns),
                    { t \in validTiles :
                        t \in adjacencyRules[nb.tileId][getOppositeDirection(n.direction)] })

\* Lines 957-982
computeValidTilesForCell(g, c) ==
    ValidFrom(g, getNeighbors(c), g[c.y][c.x].possibleTiles)

RECURSIVE PropagateLoop(_, _, _)
\* Lines 924-950: the stack loop; the top of the stack is the end of the sequence
PropagateLoop(g, stack, visited) ==
    IF stack = << >> THEN g
    ELSE LET c == stack[Len(stack)]
             rest == SubSeq(stack, 1, Len(stack) - 1)
         IN  IF c \in visited THEN PropagateLoop(g, rest, visited)
             ELSE LET v2 == visited \cup {c}
                  IN  IF g[c.y][c.x].collapsed THEN PropagateLoop(g, rest, v2)
                      ELSE LET validTiles == computeValidTilesForCell(g, c)
                           IN  IF Cardinality(validTiles) <
                                    Cardinality(g[c.y][c.x].possibleTiles)
                               THEN LET g2 == [ g EXCEPT ![c.y][c.x].possibleTiles =
                                                             validTiles ]
                                    IN  IF validTiles = {} THEN g2
                                        ELSE PropagateLoop(g2,
                                               rest \o FilterSeq(g2, getNeighbors(c), v2),
                                               v2)
                               ELSE PropagateLoop(g, rest, v2)

\* Lines 913-951
propagateConstraints(g, startCell) ==
    PropagateLoop(g, FilterSeq(g, getNeighbors(startCell), {}), {})

-----------------------------------------------------------------------------
(* findMinEntropyCell (lines 638-681)                                      *)

\* round(10^6 * ln n) for n = 1 .. 160: Math.log in micro-units
LnTable ==
<<
     0, 693147, 1098612, 1386294, 1609438, 1791759, 1945910, 2079442, 2197225, 2302585,
     2397895, 2484907, 2564949, 2639057, 2708050, 2772589, 2833213, 2890372, 2944439, 2995732,
     3044522, 3091042, 3135494, 3178054, 3218876, 3258097, 3295837, 3332205, 3367296, 3401197,
     3433987, 3465736, 3496508, 3526361, 3555348, 3583519, 3610918, 3637586, 3663562, 3688879,
     3713572, 3737670, 3761200, 3784190, 3806662, 3828641, 3850148, 3871201, 3891820, 3912023,
     3931826, 3951244, 3970292, 3988984, 4007333, 4025352, 4043051, 4060443, 4077537, 4094345,
     4110874, 4127134, 4143135, 4158883, 4174387, 4189655, 4204693, 4219508, 4234107, 4248495,
     4262680, 4276666, 4290459, 4304065, 4317488, 4330733, 4343805, 4356709, 4369448, 4382027,
     4394449, 4406719, 4418841, 4430817, 4442651, 4454347, 4465908, 4477337, 4488636, 4499810,
     4510860, 4521789, 4532599, 4543295, 4553877, 4564348, 4574711, 4584967, 4595120, 4605170,
     4615121, 4624973, 4634729, 4644391, 4653960, 4663439, 4672829, 4682131, 4691348, 4700480,
     4709530, 4718499, 4727388, 4736198, 4744932, 4753590, 4762174, 4770685, 4779123, 4787492,
     4795791, 4804021, 4812184, 4820282, 4828314, 4836282, 4844187, 4852030, 4859812, 4867534,
     4875197, 4882802, 4890349, 4897840, 4905275, 4912655, 4919981, 4927254, 4934474, 4941642,
     4948760, 4955827, 4962845, 4969813, 4976734, 4983607, 4990433, 4997212, 5003946, 5010635,
     5017280, 5023881, 5030438, 5036953, 5043425, 5049856, 5056246, 5062595, 5068904, 5075174 >>

Ln(n) == LnTable[n]

\* Line 656 times 4: entropy is invariant under a common factor of the
\* weights, so the integer 3 * frequency + connectivity stands for the weight.
Weight4(tileId) == getFrequencyWeight(tileId) * 3 + computeTileWeights[tileId]

RECURSIVE SumWeights(_)
SumWeights(S) ==
    IF S = {} THEN 0
    ELSE LET t == CHOOSE a \in S : TRUE IN Weight4(t) + SumWeights(S \ {t})

RECURSIVE SumWeightLogWeight(_)
SumWeightLogWeight(S) ==
    IF S = {} THEN 0
    ELSE LET t == CHOOSE a \in S : TRUE
         IN  Weight4(t) * Ln(Weight4(t)) + SumWeightLogWeight(S \ {t})

collapsedNeighbors(g, c) ==
    LET ns == getNeighbors(c)
    IN  Cardinality({ i \in 1..Len(ns) : g[ns[i].y][ns[i].x].collapsed })

\* Line 663 in micro-units: Math.log(sumWeights) - sumWeightLogWeight / sumWeights
ShannonEntropy(S) ==
    LET sumWeights == SumWeights(S)
    IN  (sumWeights * Ln(sumWeights) - SumWeightLogWeight(S)) \div sumWeights

RECURSIVE ShannonTable(_, _)
\* ShannonEntropy tabulated on a set of possibility sets: the value of lines
\* 648-663 depends on the cell through its possibility set only, so it is
\* computed once for the cells that share one
ShannonTable(sets, table) ==
    IF sets = {} THEN table
    ELSE LET S == CHOOSE T \in sets : TRUE
         IN  ShannonTable(sets \ {S}, MapSet(table, S, ShannonEntropy(S)))

\* Lines 663-668, without the noise of line 671
Entropy(g, c, shannon) ==
    shannon[g[c.y][c.x].possibleTiles] - collapsedNeighbors(g, c) * 100000

\* Line 671: Math.random() * 0.001 lies in [0, 0.001)
NoiseBound == 1000

\* The cells findMinEntropyCell may return.  A cell with no possible tile has
\* sumWeights = 0 and entropy NaN, and NaN < minEntropy is false.  Cell c wins
\* for some values of the noise iff its entropy is less than 0.001 above that
\* of every other candidate.
findMinEntropyCell(g) ==
    LET cand == { p \in AllPos : ~g[p.y][p.x].collapsed /\ g[p.y][p.x].possibleTiles # {} }
        shannon == ShannonTable({ g[p.y][p.x].possibleTiles : p \in cand }, EmptyMap)
        entropy == [ p \in cand |-> Entropy(g, p, shannon) ]
        minEntropy == CHOOSE e \in { entropy[p] : p \in cand } :
                          \A p \in cand : e <= entropy[p]
    IN  { c \in cand : entropy[c] - minEntropy < NoiseBound }

-----------------------------------------------------------------------------
(* collapseCell, history and snapshots                                     *)

snapshotInterval == 10
maxBacktrackDepth == 32
MaxSnapshots == 5

\* Lines 763-776: one-step look-ahead of tile id at cell c
LookaheadValid(g, c, id) ==
    LET ns == getNeighbors(c)
    IN  \A i \in 1..Len(ns) :
            LET nb == g[ns[i].y][ns[i].x]
            IN  nb.collapsed \/
                { tid \in nb.possibleTiles :
                    tid \in adjacencyRules[id][ns[i].direction] } # {}

\* Line 751: weights = possibilities.map(() => 1)
tileWeight(id) == 1

\* Math.random() lies in [0, 1): the draw is zero (0) or positive (1), which
\* is all the sign of the comparator depends on
RandomSigns == { 0, 1 }

\* Line 756: the sign of Math.random() * (b.weight - a.weight)
compareWeighted(r, a, b) == r * (tileWeight(b) - tileWeight(a))

\* Lines 754-756: the orders Array.prototype.sort may return.  The sort is
\* stable, so it returns the array in its order when every comparison gives
\* 0; a comparator that can give another value may lead to any order.
WeightedOrders(possibilities) ==
    LET n == Len(possibilities)
    IN  IF \E i, j \in 1..n, r \in RandomSigns :
               compareWeighted(r, possibilities[i], possibilities[j]) # 0
        THEN { [ i \in 1..n |-> possibilities[f[i]] ] :
                 f \in { h \in [ 1..n -> 1..n ] : \A a, b \in 1..n : h[a] = h[b] => a = b } }
        ELSE { possibilities }

\* The first possible tile, taken without look-ahead
ChosenTileWithoutLookahead(g, c, weightedTiles) == SortedSeq(g[c.y][c.x].possibleTiles)[1]

\* Lines 749-786.  possibilities is Array.from(cell.possibleTiles): the set
\* keeps insertion order, which is ascending tile id (initializeGrid inserts
\* the ids in order and every later set is a filter of an earlier one).
\* weightedTiles is the sorted array of line 754; the first of its tiles that
\* passes the look-ahead is chosen.
ChosenTile(g, c, weightedTiles) ==
    LET possibilities == SortedSeq(g[c.y][c.x].possibleTiles)
        passing == { i \in 1..Len(weightedTiles) : LookaheadValid(g, c, weightedTiles[i]) }
    IN  IF passing # {}
        THEN weightedTiles[CHOOSE i \in passing : \A j \in passing : i <= j]
        ELSE possibilities[1]

\* A collapse that leaves the possibility set as it was
SetCollapsedKeepingPossibilities(g, c, tileId) ==
    [ g EXCEPT ![c.y][c.x] = [ @ EXCEPT !.collapsed = TRUE, !.tileId = tileId ] ]

\* Lines 558-560, 788-790, 892-894, 902-904
SetCollapsed(g, c, tileId) ==
    [ g EXCEPT ![c.y][c.x] = [ @ EXCEPT !.collapsed = TRUE, !.tileId = tileId,
                                        !.possibleTiles = {tileId} ] ]

\* A list of 5 snapshots that takes no further one
saveSnapshotKeepingOldest(snaps, g, historyLength) ==
    LET pushed == Append(snaps, [ grid |-> g, historyLength |-> historyLength ])
    IN  IF Len(pushed) > MaxSnapshots THEN snaps ELSE pushed

\* Lines 815-835: the grid is deep-copied; the oldest snapshot is dropped
\* when more than 5 are held
saveSnapshot(snaps, g, historyLength) ==
    LET pushed == Append(snaps, [ grid |-> g, historyLength |-> historyLength ])
    IN  IF Len(pushed) > MaxSnapshots THEN Tail(pushed) ELSE pushed

\* Lines 799-810
recordCollapse(hist, snaps, g, c, tileId) ==
    LET h2 == Append(hist, [ x |-> c.x, y |-> c.y, tileId |-> tileId ])
    IN  [ history |-> h2,
          snapshots |-> IF Len(h2) % snapshotInterval = 0
                        THEN saveSnapshot(snaps, g, Len(h2)) ELSE snaps ]

\* Lines 748-794: the grid, history and snapshots after collapseCell(c), the
\* sort of line 754 having returned weightedTiles
collapseCell(g, hist, snaps, c, weightedTiles) ==
    LET chosenTile == ChosenTile(g, c, weightedTiles)
        g2 == SetCollapsed(g, c, chosenTile)
        rec == recordCollapse(hist, snaps, g2, c, chosenTile)
    IN  [ grid |-> g2, history |-> rec.history, snapshots |-> rec.snapshots ]

\* A restore of the possibility sets alone
restoreSnapshotPossibilitiesOnly(g, snapshot) ==
    [ y \in 0..(gridHeight - 1) |->
        [ x \in 0..(gridWidth - 1) |->
            [ g[y][x] EXCEPT !.possibleTiles = snapshot.grid[y][x].possibleTiles ] ] ]

\* Lines 840-850: every cell takes the snapshot cell's fields
restoreSnapshot(g, snapshot) ==
    [ y \in 0..(gridHeight - 1) |->
        [ x \in 0..(gridWidth - 1) |->
            [ g[y][x] EXCEPT !.collapsed = snapshot.grid[y][x].collapsed,
                             !.tileId = snapshot.grid[y][x].tileId,
                             !.possibleTiles = snapshot.grid[y][x].possibleTiles ] ] ]

\* A rollback of two steps whatever the number of recent contradictions
stepsToRemoveAlwaysTwo(rc, historyLength) == Min(2, historyLength)

\* Lines 859-868
stepsToRemove(rc, historyLength) ==
    IF rc > 6 THEN Min(maxBacktrackDepth, historyLength \div 2)
    ELSE IF rc > 3 THEN Min(8, historyLength)
    ELSE IF rc > 1 THEN Min(4, historyLength)
    ELSE Min(2, historyLength)

RECURSIVE Replay(_, _, _)
\* A replay that marks the cell and sets its tile id but leaves its
\* possibility set alone
ReplayKeepingPossibilities(g, hist, i) ==
    IF i >= Len(hist) THEN g
    ELSE LET entry == hist[i + 1]
             c == Pos(entry.x, entry.y)
             g2 == [ g EXCEPT ![c.y][c.x] =
                       [ @ EXCEPT !.collapsed = TRUE, !.tileId = entry.tileId ] ]
         IN  Replay(propagateConstraints(g2, c), hist, i + 1)

\* Lines 889-896 and 900-906: force and propagate entries i .. length-1
\* (i counts from 0)
Replay(g, hist, i) ==
    IF i >= Len(hist) THEN g
    ELSE LET entry == hist[i + 1]
             c == Pos(entry.x, entry.y)
         IN  Replay(propagateConstraints(SetCollapsed(g, c, entry.tileId), c), hist, i + 1)

\* Lines 855-908
backtrack(g, hist, snaps, rc) ==
    IF Len(hist) = 0
    THEN [ grid |-> g, history |-> hist, snapshots |-> snaps ]
    ELSE LET h2 == SubSeq(hist, 1, Len(hist) - stepsToRemove(rc, Len(hist)))
             found == { i \in 1..Len(snaps) : snaps[i].historyLength <= Len(h2) }
         IN  IF found # {}
             THEN LET i == CHOOSE k \in found : \A j \in found : j <= k
                      snapshotToRestore == snaps[i]
                  IN  [ grid |-> Replay(restoreSnapshot(g, snapshotToRestore), h2,
                                        snapshotToRestore.historyLength),
                        history |-> h2,
                        snapshots |-> SubSeq(snaps, 1, i) ]
             ELSE [ grid |-> Replay(initializeGrid, h2, 0),
                    history |-> h2,
                    snapshots |-> snaps ]

-----------------------------------------------------------------------------
(* Tile sets                                                               *)

NoImage == [ width |-> 0, height |-> 0, data |-> << >> ]

\* appController.ts 77-109: the tiles of a sample, ids in list order, and
\* the TileSet built from them
TileSetOfSample(img, N) ==
    LET ex == ExtractorGenerate(img, N)
    IN  [ sample |-> img, tileSize |-> N, tiles |-> ex.tiles,
          frequencies |-> ex.frequencies,
          neighbors |-> TileSetNeighbors(ex.tiles, N) ]

\* new TileSet(tiles) on a tile list that was not extracted from a sample.
\* frequencies is what tileSet.getTileFrequencies() hands to the constructor of
\* WFCGenerator (line 427)
TileSetOfTiles(tileList, N, frequencies) ==
    [ sample |-> NoImage, tileSize |-> N, tiles |-> tileList,
      frequencies |-> frequencies,
      neighbors |-> TileSetNeighbors(tileList, N) ]

\* 2 x 2 tiles, pixels row-major
TileUniform == Flatten(<< PixR, PixR, PixR, PixR >>)
TileLonely == Flatten(<< PixR, PixG, PixB, PixR >>)
TileChainA == Flatten(<< PixR, PixG, PixR, PixG >>)
TileChainB == Flatten(<< PixG, PixB, PixG, PixB >>)
TileDigitsT == Flatten(<< PixT, PixU, PixT, PixU >>)
TileDigitsU == Flatten(<< PixU, PixT, PixU, PixT >>)

SampleUniform == Image(1, 1, << PixR >>)
SampleChecker == Image(2, 2, << PixR, PixG, PixG, PixR >>)
SampleStripes == Image(3, 1, << PixR, PixG, PixB >>)
\* 4 x 4, one red pixel at (0, 0), the rest blue
SampleRedDot ==
    Image(4, 4, << PixR, PixB, PixB, PixB,  PixB, PixB, PixB, PixB,
                   PixB, PixB, PixB, PixB,  PixB, PixB, PixB, PixB >>)

\* Tile lists handed to new TileSet directly
HandMadeTileLists ==
    { << TileLonely >>, << TileChainA, TileChainB >>, << TileUniform, TileLonely >>,
      << TileDigitsT, TileDigitsU >>, << TileChainB, TileChainA, TileUniform >> }

\* The tile sets the solver is run on
SolverTileSets ==
    { TileSetOfSample(SampleUniform, 2),
      TileSetOfSample(SampleChecker, 2),
      TileSetOfSample(SampleStripes, 2),
      TileSetOfTiles(<< TileLonely >>, 2, (0 :> 1)),
      TileSetOfTiles(<< TileChainA, TileChainB >>, 2, (0 :> 1) @@ (1 :> 3)),
      TileSetOfTiles(<< TileUniform, TileLonely >>, 2, (0 :> 2) @@ (1 :> 1)) }

GridSizes ==
    { wh \in (1..MaxWidth) \X (1..MaxHeight) : wh[1] * wh[2] <= MaxCells }

\* A chain of tiles: tile i has the columns (i | i + 1), so its only right
\* neighbour is tile i + 1 and its only left neighbour is tile i - 1
ChainPixel(i) == << i, 0, 0, 255 >>
ChainTile(i) ==
    Flatten(<< ChainPixel(i), ChainPixel(i + 1), ChainPixel(i), ChainPixel(i + 1) >>)

\* A tile that is its own and only neighbour
TileLoop == Flatten(<< PixG, PixG, PixG, PixG >>)

\* Id 0 is the head of the chain, id 1 the loop tile, then the rest of a
\* chain of LongRowWidth - 2 tiles: a row grown rightwards from the head runs
\* out of tiles when it starts in cell 1, after the first snapshot was saved
ChainTiles ==
    << ChainTile(0), TileLoop >> \o [ i \in 1..(LongRowWidth - 3) |-> ChainTile(i) ]

LongRowTileSet ==
    TileSetOfTiles(ChainTiles, 2, [ i \in 0..(LongRowWidth - 2) |-> 1 ])

\* The tile sets and grid sizes generate() is run on: every small grid on
\* every small tile set, and the long row on the chain
Configurations ==
    { [ ts |-> ts, width |-> wh[1], height |-> wh[2] ] :
        ts \in SolverTileSets, wh \in GridSizes }
    \cup { [ ts |-> LongRowTileSet, width |-> LongRowWidth, height |-> 1 ] }

Samples ==
    UNION { { [ width |-> w, height |-> h, data |-> Flatten(pix) ] :
                pix \in [ 1..(w * h) -> Palette ] } :
            w \in 1..MaxSampleWidth, h \in 1..MaxSampleHeight }

\* Samples extracted with one tile size each
NamedSamples ==
    { [ sample |-> SampleChecker, tileSize |-> 2 ],
      [ sample |-> SampleStripes, tileSize |-> 2 ],
      [ sample |-> SampleRedDot, tileSize |-> 3 ] }

-----------------------------------------------------------------------------
(* AppController: the state of the page                                    *)

MaxCalls == 4

CallIds == 1..MaxCalls

NaN == -2

\* the values typed into the output size field
OutputSizeValues == { "", "2", "3", "3.9", "50", "51" }

\* parseInt reads the leading digits and stops at the first other character
parseInt(value) ==
    CASE value = "" -> NaN
      [] value = "2" -> 2
      [] value = "3" -> 3
      [] value = "3.9" -> 3
      [] value = "50" -> 50
      [] value = "51" -> 51

isNaN(number) == number = NaN

\* the object made by new TileSet(tiles)
NewTileSetObject == 0

NoCall == [ pc |-> "idle", setFlag |-> FALSE, outcome |-> "none" ]

\* the fields of a new AppController; the markup decides whether the
\* button starts disabled
AppConstructed(disabled) ==
    /\ isGenerating = FALSE
    /\ currentTileSet = Null
    /\ generateWfcBtn = [ disabled |-> disabled, textContent |-> "Generate WFC" ]
    /\ outputSizeInput = "3"
    /\ wfcOutput = "empty"
    /\ calls = [ c \in CallIds |-> NoCall ]
    /\ generators = 0

-----------------------------------------------------------------------------
(* SpecTiles: TileExtractor.generate, then new TileSet                     *)

solverVars == << gridWidth, gridHeight, grid, history, snapshots,
                 recentContradictions, attempt, iteration, backtracks, cur >>

SolverIdle ==
    /\ gridWidth = 0 /\ gridHeight = 0
    /\ grid = << >> /\ history = << >> /\ snapshots = << >>
    /\ recentContradictions = 0
    /\ attempt = 0 /\ iteration = 0 /\ backtracks = 0
    /\ cur = Pos(0, 0)

InitTiles ==
    /\ SolverIdle
    /\ tileFrequencies = EmptyMap
    /\ adjacencyRules = EmptyMap
    /\ AppConstructed(TRUE)
    /\ \/ /\ sample \in Samples
          /\ tileSize \in 1..MaxTileSize
          /\ tiles = << >>
          /\ pc = "extract"
       \/ /\ \E named \in NamedSamples :
                sample = named.sample /\ tileSize = named.tileSize
          /\ tiles = << >>
          /\ pc = "extract"
       \/ /\ sample = NoImage
          /\ tileSize = 2
          /\ tiles \in HandMadeTileLists
          /\ pc = "tileset"

\* tileExtractor.ts 58-178 (img.onload): tiles and frequencies of the sample
Extract ==
    /\ pc = "extract"
    /\ LET ex == ExtractorGenerate(sample, tileSize)
       IN  /\ tiles' = ex.tiles
           /\ tileFrequencies' = ex.frequencies
    /\ pc' = "tileset"
    /\ UNCHANGED << sample, tileSize, adjacencyRules >>
    /\ UNCHANGED solverVars
    /\ UNCHANGED appVars

\* tileSet.ts 28-33: new TileSet(tiles)
NewTileSet ==
    /\ pc = "tileset"
    /\ adjacencyRules' = TileSetNeighbors(tiles, tileSize)
    /\ pc' = "ready"
    /\ UNCHANGED << sample, tileSize, tiles, tileFrequencies >>
    /\ UNCHANGED solverVars
    /\ UNCHANGED appVars

NextTiles == Extract \/ NewTileSet

SpecTiles == InitTiles /\ [][NextTiles]_vars

-----------------------------------------------------------------------------
(* Spec: WFCGenerator.generate (lines 537-632)                             *)

tileVars == << sample, tileSize, tiles, tileFrequencies, adjacencyRules >>

cellCount == gridWidth * gridHeight

\* Line 542: Math.min(12, Math.ceil(4 + cellCount / 15))
maxAttempts == Min(12, 4 + (cellCount + 14) \div 15)

\* Line 543
maxBacktracks == Min(500, cellCount * 10)

\* An iteration budget of four per cell
maxIterationsFourPerCell == cellCount * 4

\* Line 566
maxIterations == cellCount * 3

\* The constructor (lines 418-430) has run on a tile set and a grid size
Constructed(cfg) ==
    /\ sample = cfg.ts.sample
    /\ tileSize = cfg.ts.tileSize
    /\ tiles = cfg.ts.tiles
    /\ tileFrequencies = cfg.ts.frequencies
    /\ adjacencyRules = cfg.ts.neighbors
    /\ gridWidth = cfg.width
    /\ gridHeight = cfg.height
    /\ grid = initializeGrid
    /\ history = << >>
    /\ snapshots = << >>
    /\ recentContradictions = 0
    /\ attempt = 0 /\ iteration = 0 /\ backtracks = 0
    /\ cur = Pos(0, 0)
    /\ pc = "for"
    /\ AppConstructed(TRUE)

Init == \E cfg \in Configurations : Constructed(cfg)

\* Lines 546-566: a new attempt; the seed cell is collapsed to a random tile
\* and recorded
StartAttempt ==
    /\ pc = "for"
    /\ attempt < maxAttempts
    /\ \E rx \in 0..(gridWidth - 1), ry \in 0..(gridHeight - 1), randomTile \in TileIds :
          LET cell == Pos(rx, ry)
              g == SetCollapsed(initializeGrid, cell, randomTile)
              rec == recordCollapse(<< >>, << >>, g, cell, randomTile)
          IN  /\ grid' = g
              /\ history' = rec.history
              /\ snapshots' = rec.snapshots
              /\ cur' = cell
    /\ recentContradictions' = 0
    /\ iteration' = 0
    /\ backtracks' = 0
    /\ pc' = "while"
    /\ UNCHANGED << attempt, gridWidth, gridHeight >>
    /\ UNCHANGED tileVars
    /\ UNCHANGED appVars

\* Line 568: the loop condition fails
LoopExit ==
    /\ pc = "while"
    /\ ~(iteration < maxIterations /\ backtracks < maxBacktracks)
    /\ pc' = "after_while"
    /\ UNCHANGED << gridWidth, gridHeight, grid, history, snapshots,
                    recentContradictions, attempt, iteration, backtracks, cur >>
    /\ UNCHANGED tileVars
    /\ UNCHANGED appVars

\* Lines 575-584: findMinEntropyCell returns no cell; generate returns render().
\* useDirectionalCollapse is false (line 416) and is assigned nowhere, so the
\* cell always comes from findMinEntropyCell.
ReturnRender ==
    /\ pc = "while"
    /\ iteration < maxIterations /\ backtracks < maxBacktracks
    /\ findMinEntropyCell(grid) = {}
    /\ pc' = "returned"
    /\ UNCHANGED << gridWidth, gridHeight, grid, history, snapshots,
                    recentContradictions, attempt, iteration, backtracks, cur >>
    /\ UNCHANGED tileVars
    /\ UNCHANGED appVars

\* Lines 575-586: findMinEntropyCell returns a cell, which is collapsed
Collapse ==
    /\ pc = "while"
    /\ iteration < maxIterations /\ backtracks < maxBacktracks
    /\ \E cell \in findMinEntropyCell(grid) :
          \E weightedTiles \in WeightedOrders(SortedSeq(grid[cell.y][cell.x].possibleTiles)) :
              LET r == collapseCell(grid, history, snapshots, cell, weightedTiles)
              IN  /\ grid' = r.grid
                  /\ history' = r.history
                  /\ snapshots' = r.snapshots
                  /\ cur' = cell
    /\ pc' = "collapsed"
    /\ UNCHANGED << gridWidth, gridHeight, recentContradictions, attempt,
                    iteration, backtracks >>
    /\ UNCHANGED tileVars
    /\ UNCHANGED appVars

\* Line 587
Propagate ==
    /\ pc = "collapsed"
    /\ grid' = propagateConstraints(grid, cur)
    /\ pc' = "propagated"
    /\ UNCHANGED << gridWidth, gridHeight, history, snapshots, recentContradictions,
                    attempt, iteration, backtracks, cur >>
    /\ UNCHANGED tileVars
    /\ UNCHANGED appVars

\* The contradiction branch without the counting of lines 606 and 607
CheckWithoutCounting ==
    /\ pc = "propagated"
    /\ IF getContradictionCell(grid)
       THEN /\ recentContradictions' = recentContradictions + 1
            /\ IF Len(history) > 0 /\ backtracks < maxBacktracks
               THEN LET b == backtrack(grid, history, snapshots, recentContradictions + 1)
                    IN  /\ grid' = b.grid
                        /\ history' = b.history
                        /\ snapshots' = b.snapshots
                        /\ pc' = "while"
                        /\ UNCHANGED << backtracks, iteration >>
               ELSE /\ pc' = "after_while"
                    /\ UNCHANGED << grid, history, snapshots, backtracks, iteration >>
       ELSE /\ recentContradictions' = Max(0, recentContradictions - 1)
            /\ iteration' = iteration + 1
            /\ pc' = "while"
            /\ UNCHANGED << grid, history, snapshots, backtracks >>
    /\ UNCHANGED << gridWidth, gridHeight, attempt, cur >>
    /\ UNCHANGED tileVars
    /\ UNCHANGED appVars

\* Lines 599-616
Check ==
    /\ pc = "propagated"
    /\ IF getContradictionCell(grid)
       THEN /\ recentContradictions' = recentContradictions + 1
            /\ IF Len(history) > 0 /\ backtracks < maxBacktracks
               THEN LET b == backtrack(grid, history, snapshots, recentContradictions + 1)
                    IN  /\ grid' = b.grid
                        /\ history' = b.history
                        /\ snapshots' = b.snapshots
                        /\ backtracks' = backtracks + 1
                        /\ iteration' = iteration + 1
                        /\ pc' = "while"
               ELSE /\ pc' = "after_while"
                    /\ UNCHANGED << grid, history, snapshots, backtracks, iteration >>
       ELSE /\ recentContradictions' = Max(0, recentContradictions - 1)
            /\ iteration' = iteration + 1
            /\ pc' = "while"
            /\ UNCHANGED << grid, history, snapshots, backtracks >>
    /\ UNCHANGED << gridWidth, gridHeight, attempt, cur >>
    /\ UNCHANGED tileVars
    /\ UNCHANGED appVars

\* Lines 619-625: after the loop, return render() or go to the next attempt
AfterWhile ==
    /\ pc = "after_while"
    /\ IF ~getContradictionCell(grid) /\ isFullyCollapsed(grid)
       THEN pc' = "returned" /\ UNCHANGED attempt
       ELSE pc' = "for" /\ attempt' = attempt + 1
    /\ UNCHANGED << gridWidth, gridHeight, grid, history, snapshots,
                    recentContradictions, iteration, backtracks, cur >>
    /\ UNCHANGED tileVars
    /\ UNCHANGED appVars

\* Lines 627-631: all attempts failed
Throw ==
    /\ pc = "for"
    /\ ~(attempt < maxAttempts)
    /\ pc' = "failed"
    /\ UNCHANGED << gridWidth, gridHeight, grid, history, snapshots,
                    recentContradictions, attempt, iteration, backtracks, cur >>
    /\ UNCHANGED tileVars
    /\ UNCHANGED appVars

Next ==
    \/ StartAttempt
    \/ LoopExit
    \/ ReturnRender
    \/ Collapse
    \/ Propagate
    \/ Check
    \/ AfterWhile
    \/ Throw

Spec == Init /\ [][Next]_vars

-----------------------------------------------------------------------------
(* SpecObserved: generate(onProgress, onVisualize), both callbacks given.  *)
(* onProgress (lines 570-573, 580-582, 620-622) is called synchronously    *)
(* with counts read from the grid; the call assigns nothing and is part of *)
(* the step it occurs in.                                                  *)

\* Largest grid of the runs with callbacks
MaxObservedCells == 4

ObservedConfigurations ==
    { cfg \in Configurations : cfg.width * cfg.height <= MaxObservedCells }

InitObserved == \E cfg \in ObservedConfigurations : Constructed(cfg)

\* Lines 587-590: the propagation pass; with onVisualize given, an even
\* iteration goes on to the partial render
PropagateObserved ==
    /\ pc = "collapsed"
    /\ grid' = propagateConstraints(grid, cur)
    /\ pc' = IF iteration % 2 = 0 THEN "visualize" ELSE "propagated"
    /\ UNCHANGED << gridWidth, gridHeight, history, snapshots, recentContradictions,
                    attempt, iteration, backtracks, cur >>
    /\ UNCHANGED tileVars
    /\ UNCHANGED appVars

\* The partial render followed by a jump back to the head of the loop
VisualizeSkippingCheck ==
    /\ pc = "visualize"
    /\ pc' = "while"
    /\ UNCHANGED << gridWidth, gridHeight, grid, history, snapshots,
                    recentContradictions, attempt, iteration, backtracks, cur >>
    /\ UNCHANGED tileVars
    /\ UNCHANGED appVars

\* Lines 590-597: renderPartial() reads the grid and draws on a new canvas;
\* the render, if there is one, goes to onVisualize and generate() awaits a
\* timer; it resumes at the contradiction check
Visualize ==
    /\ pc = "visualize"
    /\ pc' = "propagated"
    /\ UNCHANGED << gridWidth, gridHeight, grid, history, snapshots,
                    recentContradictions, attempt, iteration, backtracks, cur >>
    /\ UNCHANGED tileVars
    /\ UNCHANGED appVars

NextObserved ==
    \/ StartAttempt
    \/ LoopExit
    \/ ReturnRender
    \/ Collapse
    \/ PropagateObserved
    \/ Visualize
    \/ Check
    \/ AfterWhile
    \/ Throw

SpecObserved == InitObserved /\ [][NextObserved]_vars

-----------------------------------------------------------------------------
(* SpecCheckerboard: generate() on a 4 x 4 grid with the tiles of the 2 x 2 *)
(* checkerboard, N = 2, followed through the first collapses of its first  *)
(* attempt, up to the first backtrack                                      *)

\* Collapses followed, the seed included
MaxCheckerboardCollapses == 5

CheckerboardFourByFour ==
    [ ts |-> TileSetOfSample(SampleChecker, 2), width |-> 4, height |-> 4 ]

InitCheckerboard == Constructed(CheckerboardFourByFour)

\* Collapse, for the first collapses of a run that has not backtracked
CollapseAmongFirst ==
    /\ backtracks = 0
    /\ Len(history) < MaxCheckerboardCollapses
    /\ Collapse

NextCheckerboard ==
    \/ StartAttempt
    \/ CollapseAmongFirst
    \/ Propagate
    \/ Check

SpecCheckerboard == InitCheckerboard /\ [][NextCheckerboard]_vars

-----------------------------------------------------------------------------
(* SpecRollback: generate() on three rows, followed through its first      *)
(* rollbacks.  On a row longer than a chain of tiles the row grows until   *)
(* the chain runs out, after the snapshot of history length 10 was saved,  *)
(* and the rollback that follows goes below it or ends on it.  The row of  *)
(* two alternating tiles is long enough for six snapshots.                 *)

\* The width of the row and the number of tiles of the chain whose tenth
\* collapse is followed by a contradiction
RollbackRowWidth == 11
RollbackChainLength == 9

\* The same for a contradiction that follows the twelfth collapse, so that
\* the rollback ends on the snapshot of history length 10
RestoreRowWidth == 13
RestoreChainLength == 11

\* Tile i has tile i + 1 as its only right neighbour and tile i - 1 as its
\* only left neighbour; the first tile has no left neighbour, the last no
\* right neighbour
ChainOfLength(n) == [ i \in 1..n |-> ChainTile(i - 1) ]

ChainTileSet(n) == TileSetOfTiles(ChainOfLength(n), 2, [ i \in 0..(n - 1) |-> 1 ])

\* The width of the row of two alternating tiles: its last collapse brings
\* the sixth snapshot
AlternatingRowWidth == 60

\* The number of rollbacks after which the run is no longer followed
MaxRollbacks == 3

RollbackConfigurations ==
    { [ ts |-> ChainTileSet(RollbackChainLength), width |-> RollbackRowWidth, height |-> 1 ],
      [ ts |-> ChainTileSet(RestoreChainLength), width |-> RestoreRowWidth, height |-> 1 ],
      [ ts |-> TileSetOfSample(SampleChecker, 2), width |-> AlternatingRowWidth, height |-> 1 ] }

InitRollback == \E cfg \in RollbackConfigurations : Constructed(cfg)

\* Lines 575-586, up to the last rollback that is followed
CollapseAmongFirstRollbacks == backtracks < MaxRollbacks /\ Collapse

NextRollback ==
    \/ StartAttempt
    \/ ReturnRender
    \/ CollapseAmongFirstRollbacks
    \/ Propagate
    \/ Check

SpecRollback == InitRollback /\ [][NextRollback]_vars

-----------------------------------------------------------------------------
(* SpecApp: AppController, the clicks on its two buttons.  A call of       *)
(* generateWFC that reaches its await is resumed by a later step, and any  *)
(* other handler may run in between.                                       *)

InitApp ==
    /\ sample = NoImage
    /\ tileSize = 2
    /\ tiles = << >>
    /\ tileFrequencies = EmptyMap
    /\ adjacencyRules = EmptyMap
    /\ SolverIdle
    /\ pc = "app"
    /\ \E disabled \in BOOLEAN : AppConstructed(disabled)

ButtonIdle == [ disabled |-> FALSE, textContent |-> "Generate WFC" ]

\* the text after the assignment in generateWFC or after a progress callback
ProgressTexts == { "Generating...", "Generating... (Attempt a/m, p%)" }

\* what the awaited generation and the display of its image come to
GenerationOutcomes == { "image", "no context", "null", "threw" }

AlreadyGeneratingIgnored == FALSE

AlreadyGenerating == isGenerating

Returned(setFlag, outcome) ==
    [ pc |-> "returned", setFlag |-> setFlag, outcome |-> outcome ]

\* generateTiles, from the point where its awaited extraction has settled:
\* only a run that built a tile set touches the fields of the WFC side
GenerateTiles ==
    /\ pc = "app"
    /\ \E built \in BOOLEAN :
          IF built
          THEN /\ currentTileSet' = NewTileSetObject
               /\ generateWfcBtn' = [ generateWfcBtn EXCEPT !.disabled = FALSE ]
          ELSE UNCHANGED << currentTileSet, generateWfcBtn >>
    /\ UNCHANGED << isGenerating, outputSizeInput, wfcOutput, calls, generators >>
    /\ UNCHANGED tileVars
    /\ UNCHANGED solverVars
    /\ UNCHANGED pc

\* the user types into the output size field
EditOutputSize ==
    /\ pc = "app"
    /\ \E value \in OutputSizeValues \ { outputSizeInput } :
          outputSizeInput' = value
    /\ UNCHANGED << isGenerating, currentTileSet, generateWfcBtn, wfcOutput,
                    calls, generators >>
    /\ UNCHANGED tileVars
    /\ UNCHANGED solverVars
    /\ UNCHANGED pc

\* a click on the WFC button: generateWFC up to its return or its await
GenerateWFC ==
    /\ pc = "app"
    /\ \E c \in CallIds :
          /\ calls[c].pc = "idle"
          /\ \A d \in 1..(c - 1) : calls[d].pc # "idle"
          /\ IF AlreadyGenerating
             THEN /\ calls' = [ calls EXCEPT ![c] = Returned(FALSE, "generating") ]
                  /\ UNCHANGED << isGenerating, generateWfcBtn, generators >>
             ELSE IF currentTileSet = Null
             THEN /\ calls' = [ calls EXCEPT ![c] = Returned(FALSE, "no tiles") ]
                  /\ UNCHANGED << isGenerating, generateWfcBtn, generators >>
             ELSE LET gridSize == parseInt(outputSizeInput) IN
                  IF isNaN(gridSize) \/ gridSize < 3 \/ gridSize > 50
                  THEN /\ calls' = [ calls EXCEPT ![c] = Returned(TRUE, "bad size") ]
                       /\ isGenerating' = FALSE
                       /\ generateWfcBtn' = ButtonIdle
                       /\ UNCHANGED generators
                  ELSE /\ \E outcome \in GenerationOutcomes :
                             calls' = [ calls EXCEPT ![c] =
                                          [ pc |-> "awaiting", setFlag |-> TRUE,
                                            outcome |-> outcome ] ]
                       /\ isGenerating' = TRUE
                       /\ \E text \in ProgressTexts :
                             generateWfcBtn' = [ disabled |-> TRUE,
                                                 textContent |-> text ]
                       /\ generators' = generators + 1
    /\ UNCHANGED << currentTileSet, outputSizeInput, wfcOutput >>
    /\ UNCHANGED tileVars
    /\ UNCHANGED solverVars
    /\ UNCHANGED pc

\* generateWFC from its await to its return
ResumeGenerateWFC ==
    /\ pc = "app"
    /\ \E c \in CallIds :
          /\ calls[c].pc = "awaiting"
          /\ wfcOutput' = CASE calls[c].outcome = "image" -> "canvas"
                            [] calls[c].outcome = "no context" -> "empty"
                            [] OTHER -> wfcOutput
          /\ calls' = [ calls EXCEPT ![c] = Returned(TRUE, calls[c].outcome) ]
    /\ isGenerating' = FALSE
    /\ generateWfcBtn' = ButtonIdle
    /\ UNCHANGED << currentTileSet, outputSizeInput, generators >>
    /\ UNCHANGED tileVars
    /\ UNCHANGED solverVars
    /\ UNCHANGED pc

NextApp == GenerateTiles \/ EditOutputSize \/ GenerateWFC \/ ResumeGenerateWFC

SpecApp == InitApp /\ [][NextApp]_vars

-----------------------------------------------------------------------------
(* Properties                                                              *)

Cell(p) == grid[p.y][p.x]

\* The neighbour of p in direction d, given that it lies in the grid
Toward(p, d) ==
    CASE d = "up" -> Pos(p.x, p.y - 1)
      [] d = "down" -> Pos(p.x, p.y + 1)
      [] d = "left" -> Pos(p.x - 1, p.y)
      [] d = "right" -> Pos(p.x + 1, p.y)

\* C1: whenever generate() returns a result, every pair of orthogonally
\* adjacent cells respects the adjacency rules: the tile of the neighbour in
\* direction d of a cell holding tP is in adjacency[tP][d].
C1_AdjacentCellsRespectRules ==
    pc = "returned" =>
        \A p \in AllPos : \A d \in Directions :
            (Toward(p, d) \in AllPos /\ Cell(p).tileId # Null
                                     /\ Cell(Toward(p, d)).tileId # Null)
            => Cell(Toward(p, d)).tileId \in adjacencyRules[Cell(p).tileId][d]

\* C2: generate() returns a result only when every cell is collapsed with a
\* non-null tile id and no cell has an empty possibility set.
C2_ReturnedGridIsComplete ==
    pc = "returned" =>
        \A p \in AllPos :
            Cell(p).collapsed /\ Cell(p).tileId # Null /\ Cell(p).possibleTiles # {}

\* generate() has returned a grid after at least one backtrack
C2_Witness ==
    /\ pc = "returned" /\ backtracks > 0
    /\ Len(history) = cellCount /\ cellCount > 1

\* Tile t in cell p agrees with the tiles the partial assignment gives to the
\* neighbours of p
Fits(assign, p, t) ==
    \A d \in Directions :
        Toward(p, d) \in DOMAIN assign =>
            /\ assign[Toward(p, d)] \in adjacencyRules[t][d]
            /\ t \in adjacencyRules[assign[Toward(p, d)]][getOppositeDirection(d)]

RECURSIVE CanExtend(_, _)
\* The partial assignment extends to the cells of the set rest
CanExtend(assign, rest) ==
    IF rest = {} THEN TRUE
    ELSE LET p == CHOOSE q \in rest :
                      \A r \in rest : q.y * gridWidth + q.x <= r.y * gridWidth + r.x
         IN  \E t \in TileIds :
                 Fits(assign, p, t) /\ CanExtend(assign @@ (p :> t), rest \ {p})

\* Some assignment of the grid satisfies all adjacency constraints
Satisfiable == CanExtend(<< >>, AllPos)

\* C3: when no assignment of the grid satisfies the adjacency constraints,
\* generate() never returns a solved grid.
C3_UnsatisfiableNeverReturns ==
    pc = "returned" => Satisfiable

\* One more than the largest rank of a step inside an attempt
RankBase == 4 * maxIterations + 6

\* The rank of a position inside an attempt
RankInAttempt ==
    CASE pc = "for" -> RankBase - 1
      [] pc = "while" -> 4 * (maxIterations - iteration) + 4
      [] pc = "collapsed" -> 4 * (maxIterations - iteration) + 3
      [] pc = "propagated" -> 4 * (maxIterations - iteration) + 2
      [] pc = "after_while" -> 1

\* The attempts left, then the iterations left, then the position inside the
\* loop body; 0 once generate() has returned or thrown
Rank ==
    IF pc \in { "returned", "failed" } THEN 0
    ELSE (maxAttempts - attempt) * RankBase + RankInAttempt

\* C4: every call of generate() terminates: it returns a result or raises
\* the failure error.  No sequence of contradictions and backtracks makes the
\* attempt loop or the main loop run forever: the rank is a natural number,
\* positive until generate() has returned or thrown, and every step of
\* generate() lowers it.
C4_GenerateTerminates ==
    /\ [](Rank >= 0 /\ (Rank = 0 <=> pc \in { "returned", "failed" }))
    /\ [][Rank' < Rank]_vars

\* generate() has thrown after its last attempt ran into contradictions
C4_Witness ==
    pc = "failed" /\ attempt = maxAttempts /\ backtracks > 0

\* The number of attempts started so far
AttemptsStarted == IF pc \in { "for", "failed" } THEN attempt ELSE attempt + 1

\* ceil(4 + cells / 15) = ceil((60 + cells) / 15)
CeilAttempts(cells) ==
    CHOOSE k \in 0..(cells + 5) : 15 * k >= 60 + cells /\ 15 * (k - 1) < 60 + cells

C6_AdjacencySymmetric ==
    \A a \in DOMAIN adjacencyRules : \A b \in DOMAIN adjacencyRules :
        \A d \in Directions :
            b \in adjacencyRules[a][d] <=> a \in adjacencyRules[b][getOppositeDirection(d)]

\* A tile set in which B is a right neighbour of A but not a left one
C6_Witness ==
    /\ pc = "ready"
    /\ \E a \in TileIds : \E b \in TileIds \ {a} :
          b \in adjacencyRules[a].right /\ b \notin adjacencyRules[a].left

\* The pixel (all four channels) of tile id at row r and column c
TilePixel(id, r, c) ==
    LET data == tiles[id + 1]
        idx == (r * tileSize + c) * 4
    IN  << data[idx + 1], data[idx + 2], data[idx + 3], data[idx + 4] >>

\* Columns 1..N-1 of A equal columns 0..N-2 of B on all rows
ColumnsOverlap(a, b) ==
    \A r \in 0..(tileSize - 1) : \A c \in 1..(tileSize - 1) :
        TilePixel(a, r, c) = TilePixel(b, r, c - 1)

\* Rows 1..N-1 of A equal rows 0..N-2 of B on all columns
RowsOverlap(a, b) ==
    \A r \in 1..(tileSize - 1) : \A c \in 0..(tileSize - 1) :
        TilePixel(a, r, c) = TilePixel(b, r - 1, c)

\* C7: for every ordered pair of tiles (A, B), A = B included, the adjacency
\* of TileSet equals the pixel-exact overlap rule in all four directions.
C7_AdjacencyIsPixelOverlap ==
    pc = "ready" =>
        \A a \in TileIds : \A b \in TileIds :
            /\ b \in adjacencyRules[a].right <=> ColumnsOverlap(a, b)
            /\ b \in adjacencyRules[a].left <=> ColumnsOverlap(b, a)
            /\ b \in adjacencyRules[a].down <=> RowsOverlap(a, b)
            /\ b \in adjacencyRules[a].up <=> RowsOverlap(b, a)

\* A tile set of tiles wider than one pixel with a tile that is its own
\* neighbour, a pair that is adjacent and a pair that is not
C7_Witness ==
    /\ pc = "ready" /\ tileSize >= 2
    /\ \E a \in TileIds : a \in adjacencyRules[a].down /\ a \notin adjacencyRules[a].right
    /\ \E a \in TileIds : \E b \in TileIds \ {a} :
          b \in adjacencyRules[a].right /\ b \notin adjacencyRules[a].up

\* C8: for every cell in every state reached during generate(): the cell is
\* marked collapsed iff its possibility set has exactly one element and its
\* tile id is that element.
C8_CollapsedIffSingleton ==
    \A p \in AllPos :
        Cell(p).collapsed <=>
            (Cardinality(Cell(p).possibleTiles) = 1
             /\ Cell(p).tileId \in Cell(p).possibleTiles)

\* After a backtrack: a collapsed cell, and an uncollapsed cell that
\* propagation has narrowed to one tile
C8_Witness ==
    /\ pc = "while" /\ backtracks > 0
    /\ \E p \in AllPos : Cell(p).collapsed
    /\ \E p \in AllPos : ~Cell(p).collapsed /\ Cardinality(Cell(p).possibleTiles) = 1

CollapsedCellsWellFormed ==
    \A p \in AllPos :
        Cell(p).collapsed =>
            Cell(p).tileId # Null /\ Cell(p).possibleTiles = { Cell(p).tileId }

\* A propagation pass (Propagate) or a backtrack with its restore and replay
\* (Check) leaves the cells that stay collapsed as they were
CollapsedCellsKept ==
    pc \in { "collapsed", "propagated" } =>
        \A p \in AllPos :
            (Cell(p).collapsed /\ grid'[p.y][p.x].collapsed) =>
                /\ grid'[p.y][p.x].tileId = Cell(p).tileId
                /\ grid'[p.y][p.x].possibleTiles = Cell(p).possibleTiles

\* C9: in every state reached during generate(), each collapsed cell has a
\* non-null tile id and a possibility set equal to {tile id}; no propagation
\* pass, snapshot restore or replay changes the possibility set or tile id of
\* a cell that stays collapsed.
C9_CollapsedCellsStable ==
    []CollapsedCellsWellFormed /\ [][CollapsedCellsKept]_vars

\* Right after the first backtrack, which restored the snapshot of history
\* length 10 and replayed the entry after it
C9_Witness ==
    /\ pc = "while" /\ backtracks = 1 /\ recentContradictions = 1
    /\ snapshots # << >> /\ Len(history) > snapshots[Len(snapshots)].historyLength
    /\ \A i \in 1..Len(history) : grid[history[i].y][history[i].x].collapsed

RECURSIVE SumFrequencies(_)
SumFrequencies(ids) ==
    IF ids = {} THEN 0
    ELSE LET id == CHOOSE a \in ids : TRUE
         IN  tileFrequencies[id] + SumFrequencies(ids \ {id})

\* C10: the frequencies returned by TileExtractor.generate for a W x H
\* sample sum to W*H, and every returned tile id has a frequency of at
\* least 1.
C10_FrequenciesSumToArea ==
    (pc \in { "tileset", "ready" } /\ sample # NoImage) =>
        /\ SumFrequencies(DOMAIN tileFrequencies) = sample.width * sample.height
        /\ \A id \in TileIds : id \in DOMAIN tileFrequencies /\ tileFrequencies[id] >= 1

\* A sample with two tiles or more, one of them found at several origins
C10_Witness ==
    /\ pc = "tileset" /\ sample # NoImage /\ Len(tiles) >= 2
    /\ \E id \in DOMAIN tileFrequencies : tileFrequencies[id] >= 2

\* Tile id is the window of the sample at origin (x, y), read with wrap
TileIsWindow(id, x, y) ==
    \A dy \in 0..(tileSize - 1) : \A dx \in 0..(tileSize - 1) :
        TilePixel(id, dy, dx) =
            GetPixel(sample, (x + dx) % sample.width, (y + dy) % sample.height)

\* The origins of the scan, numbered in scan order (y outer, x inner)
Origins == 0..(sample.width * sample.height - 1)

\* The origins at which tile id is found
OriginsOf(id) ==
    { k \in Origins : TileIsWindow(id, k % sample.width, k \div sample.width) }

FirstSeen(id) == CHOOSE k \in OriginsOf(id) : \A j \in OriginsOf(id) : k <= j

\* C11: TileExtractor.generate returns each distinct window of the toroidal
\* scan exactly once: no two tiles have identical pixels, every window of the
\* scan is among the tiles, and the ids follow the order in which the patterns
\* are first seen.
C11_TilesAreDistinctWindowsInScanOrder ==
    (pc \in { "tileset", "ready" } /\ sample # NoImage) =>
        /\ \A i \in TileIds : \A j \in TileIds : i # j => tiles[i + 1] # tiles[j + 1]
        /\ \A k \in Origins : \E id \in TileIds : k \in OriginsOf(id)
        /\ \A id \in TileIds : OriginsOf(id) # {}
        /\ \A i \in TileIds : \A j \in TileIds : i < j => FirstSeen(i) < FirstSeen(j)

\* Three tiles or more, fewer than the origins: some window was seen again
C11_Witness ==
    /\ pc = "ready" /\ sample # NoImage
    /\ Len(tiles) >= 3 /\ Len(tiles) < sample.width * sample.height

\* All pixels of the sample have the same colour
Uniform ==
    /\ sample # NoImage
    /\ \A px \in 0..(sample.width - 1) : \A py \in 0..(sample.height - 1) :
          GetPixel(sample, px, py) = GetPixel(sample, 0, 0)

\* C12: a sample of one colour yields exactly one tile, with frequency W*H,
\* and that tile is its own permitted neighbour in all four directions.
C12_UniformSampleOneSelfAdjacentTile ==
    (pc = "ready" /\ Uniform) =>
        /\ Len(tiles) = 1
        /\ DOMAIN tileFrequencies = {0}
        /\ tileFrequencies[0] = sample.width * sample.height
        /\ \A d \in Directions : 0 \in adjacencyRules[0][d]

\* A one-colour sample of several pixels, read with a window that wraps
C12_Witness ==
    /\ pc = "ready" /\ Uniform
    /\ sample.width * sample.height > 1 /\ tileSize > sample.width

\* Every tile has exactly one permitted neighbour in each direction
OneNeighbourEachWay ==
    \A id \in TileIds : \A d \in Directions : Cardinality(adjacencyRules[id][d]) = 1

\* C13 as stated: the 2 x 2 red/green checkerboard with N = 2 yields four
\* distinct tiles, each with exactly one permitted neighbour in each direction.
C13_CheckerboardFourTiles ==
    (pc = "ready" /\ sample = SampleChecker /\ tileSize = 2) =>
        Len(tiles) = 4 /\ OneNeighbourEachWay

\* C13 amended: the 2 x 2 red/green checkerboard with N = 2 yields two
\* distinct tiles (the windows at the origins (1,1) and (0,1) repeat those at
\* (0,0) and (1,0)), each with exactly one permitted neighbour in each
\* direction: the other tile.
C13_CheckerboardTwoTiles ==
    (pc = "ready" /\ sample = SampleChecker /\ tileSize = 2) =>
        /\ Len(tiles) = 2 /\ tiles[1] # tiles[2]
        /\ OneNeighbourEachWay
        /\ \A d \in Directions : adjacencyRules[0][d] = {1} /\ adjacencyRules[1][d] = {0}

C13_Witness ==
    /\ pc = "ready" /\ sample = SampleChecker /\ tileSize = 2
    /\ tileFrequencies = (0 :> 2) @@ (1 :> 2)

\* C14 as stated: the 4 x 4 sample with one red pixel, N = 3, yields 9 tiles.
C14_RedDotNineTiles ==
    (pc \in { "tileset", "ready" } /\ sample = SampleRedDot /\ tileSize = 3) =>
        Len(tiles) = 9

\* The tile has no red pixel
AllBlue(id) ==
    \A r \in 0..(tileSize - 1) : \A c \in 0..(tileSize - 1) : TilePixel(id, r, c) = PixB

\* C14 amended: the 4 x 4 sample with one red pixel, N = 3, yields 10 tiles:
\* nine with the red pixel, one per position in the window, and the all-blue
\* tile of the seven origins whose window misses the red pixel.
C14_RedDotTenTiles ==
    (pc \in { "tileset", "ready" } /\ sample = SampleRedDot /\ tileSize = 3) =>
        /\ Len(tiles) = 10
        /\ Cardinality({ id \in TileIds : ~AllBlue(id) }) = 9
        /\ \E id \in TileIds : AllBlue(id) /\ tileFrequencies[id] = 7

C14_Witness ==
    /\ pc = "tileset" /\ sample = SampleRedDot /\ tileSize = 3
    /\ \E id \in TileIds : tileFrequencies[id] = 7

\* C15: with the tile set of the 2 x 2 red/green checkerboard at N = 2,
\* generate() on a 4 x 4 grid succeeds in its first attempt without ever
\* backtracking, for every sequence of random choices.
C15_CheckerboardNeverBacktracks ==
    backtracks = 0 /\ attempt = 0 /\ pc # "failed"

\* C16: two runs of generate() on the same tile set, grid size and seed take
\* the same decisions and produce identical output.  generate() takes no
\* seed, so its inputs are the tile set and the grid size, and two runs on
\* them take the same decisions iff no state leaves a choice: at most one
\* seed cell and seed tile to draw, at most one cell to select.
C16_SameInputsSameDecisions ==
    /\ (pc = "for" /\ attempt < maxAttempts) => Cardinality(AllPos \X TileIds) <= 1
    /\ (pc = "while" /\ iteration < maxIterations /\ backtracks < maxBacktracks)
          => Cardinality(findMinEntropyCell(grid)) <= 1

\* A step of generate() with callbacks, seen from the solver: the partial
\* render leaves every variable of the solver as it is and hands over to the
\* contradiction check; the step that leads to it is the propagation pass,
\* complete; every other step is a step of generate() without callbacks.
ObservedStepIsSolverStep ==
    IF pc = "visualize"
    THEN /\ pc' = "propagated"
         /\ UNCHANGED << grid, history, snapshots, recentContradictions,
                         attempt, iteration, backtracks, cur, gridWidth, gridHeight >>
         /\ UNCHANGED tileVars
         /\ UNCHANGED appVars
    ELSE IF pc' = "visualize"
    THEN /\ pc = "collapsed"
         /\ grid' = propagateConstraints(grid, cur)
         /\ UNCHANGED << history, snapshots, recentContradictions,
                         attempt, iteration, backtracks, cur, gridWidth, gridHeight >>
         /\ UNCHANGED tileVars
         /\ UNCHANGED appVars
    ELSE Next

\* C17: supplying onProgress and onVisualize does not change the solver: for
\* the same random choices the grid, history, snapshots and
\* recentContradictions go through the same states and the outcome is the
\* same with and without the callbacks, and the visualisation yield happens
\* only after a propagation pass has completed.
C17_ObserverLeavesSolverAlone ==
    [][ObservedStepIsSolverStep]_vars

\* A partial render is due after a backtrack, on a grid that a propagation
\* pass has narrowed
C17_Witness ==
    /\ pc = "visualize" /\ backtracks > 0
    /\ \E p \in AllPos : ~Cell(p).collapsed /\ Cell(p).possibleTiles # TileIds

\* C18: at the start of every attempt the seed cell is collapsed and its
\* constraints are propagated before the main loop selects its first cell:
\* at the first selection every neighbour of the seed cell in direction d has
\* a possibility set contained in adjacency[seed tile][d].
C18_SeedPropagatedBeforeFirstSelection ==
    (pc = "while" /\ iteration = 0 /\ Len(history) = 1) =>
        LET seed == Pos(history[1].x, history[1].y)
        IN  \A d \in Directions :
                Toward(seed, d) \in AllPos =>
                    Cell(Toward(seed, d)).possibleTiles
                        \subseteq adjacencyRules[history[1].tileId][d]

\* The possibility set of p intersected, for each collapsed neighbour lying in
\* direction d from p and holding tile T, with adjacency[T][opposite(d)]
Constrained(p) ==
    { t \in Cell(p).possibleTiles :
        \A d \in Directions :
            (Toward(p, d) \in AllPos /\ Cell(Toward(p, d)).collapsed) =>
                t \in adjacencyRules[Cell(Toward(p, d)).tileId][getOppositeDirection(d)] }

\* What computeValidTilesForCell returns for every uncollapsed cell of the
\* grid a propagation pass starts on
RecomputedIsIntersection ==
    pc = "collapsed" =>
        \A p \in AllPos :
            ~Cell(p).collapsed => computeValidTilesForCell(grid, p) = Constrained(p)

\* What the propagation pass of the main loop does to the grid
PassOnlyNarrows ==
    pc = "collapsed" =>
        /\ \A p \in AllPos :
              /\ grid'[p.y][p.x].possibleTiles \subseteq Cell(p).possibleTiles
              /\ grid'[p.y][p.x].possibleTiles # Cell(p).possibleTiles =>
                    ~Cell(p).collapsed /\ grid'[p.y][p.x].possibleTiles = Constrained(p)
        /\ (\A p \in AllPos : grid'[p.y][p.x].possibleTiles # {}) =>
              \A d \in Directions :
                  (Toward(cur, d) \in AllPos /\ ~Cell(Toward(cur, d)).collapsed) =>
                      grid'[Toward(cur, d).y][Toward(cur, d).x].possibleTiles
                          = Constrained(Toward(cur, d))

\* C19: for every uncollapsed cell processed in a propagation pass the
\* recomputed possibility set is the previous set intersected, for each
\* collapsed neighbour in direction d holding T, with adjacency[T][opposite(d)];
\* uncollapsed neighbours impose no constraint, the set is replaced only when
\* it strictly shrinks, and a pass never adds a tile to a possibility set.
C19_PropagationIntersects ==
    []RecomputedIsIntersection /\ [][PassOnlyNarrows]_vars

\* After a pass: an uncollapsed cell between two collapsed neighbours that
\* has lost a tile and kept one
C19_Witness ==
    /\ pc = "propagated"
    /\ \E p \in AllPos :
          /\ ~Cell(p).collapsed
          /\ Cell(p).possibleTiles # {} /\ Cell(p).possibleTiles # TileIds
          /\ Cardinality({ d \in Directions :
                  Toward(p, d) \in AllPos /\ Cell(Toward(p, d)).collapsed }) >= 2

\* Tile t at cell c leaves every uncollapsed neighbour of c a possible tile
PassesLookahead(c, t) ==
    \A d \in Directions :
        (Toward(c, d) \in AllPos /\ ~Cell(Toward(c, d)).collapsed) =>
            Cell(Toward(c, d)).possibleTiles \cap adjacencyRules[t][d] # {}

\* What a collapse step of the main loop chooses
CollapseChoosesByLookahead ==
    (pc = "while" /\ pc' = "collapsed") =>
        LET c == cur'
            t == grid'[c.y][c.x].tileId
            possible == Cell(c).possibleTiles
        IN  /\ t \in possible
            /\ (\E u \in possible : PassesLookahead(c, u)) => PassesLookahead(c, t)
            /\ (\A u \in possible : ~PassesLookahead(c, u)) =>
                  \A u \in possible : t <= u

\* C20: collapseCell on a cell with a non-empty possibility set chooses a
\* tile that passes one-step look-ahead whenever a possible tile passes, and
\* falls back to the first tile of the possibility set only when none passes;
\* the chosen tile is a member of the possibility set before the collapse.
C20_CollapseChoosesByLookahead ==
    [][CollapseChoosesByLookahead]_vars

\* The first collapse after the seed, every other cell still holding all
\* tiles: tile 0 failed the look-ahead and a later tile was chosen
C20_Witness ==
    /\ pc = "collapsed" /\ Len(history) = 2 /\ iteration = 0
    /\ Cell(cur).tileId # 0

\* C21: collapseCell tries the possible tiles in a weighted-random order:
\* for every cell the main loop may select and every tile of its possibility
\* set that passes the look-ahead, some outcome of the sort has that tile
\* chosen.
C21_EveryPassingTileCanBeChosen ==
    (pc = "while" /\ iteration < maxIterations /\ backtracks < maxBacktracks) =>
        \A c \in findMinEntropyCell(grid) :
            \A t \in Cell(c).possibleTiles :
                LookaheadValid(grid, c, t) =>
                    \E weightedTiles \in WeightedOrders(SortedSeq(Cell(c).possibleTiles)) :
                        ChosenTile(grid, c, weightedTiles) = t

\* The step of the main loop that calls backtrack() (lines 599-607)
BacktrackStep ==
    /\ pc = "propagated"
    /\ getContradictionCell(grid)
    /\ Len(history) > 0 /\ backtracks < maxBacktracks

\* The number of entries a step takes off the history
Removed == Len(history) - Len(history')

\* What a backtrack does to the history, r being recentContradictions at the
\* time of the call
BacktrackFollowsSchedule ==
    BacktrackStep =>
        LET r == recentContradictions'
            n == Len(history)
        IN  /\ r <= 1 => Removed = Min(2, n)
            /\ r \in { 2, 3 } => Removed = Min(4, n)
            /\ r \in 4..6 => Removed = Min(8, n)
            /\ r > 6 => Removed = Min(32, n \div 2)
            /\ history' = SubSeq(history, 1, n - Removed)

Qualifying(snaps, n) == { i \in 1..Len(snaps) : snaps[i].historyLength <= n }

\* What a backtrack does to the snapshots
BacktrackKeepsEarlierSnapshots ==
    BacktrackStep =>
        LET found == Qualifying(snapshots, Len(history'))
        IN  /\ found # {} =>
                  LET last == CHOOSE i \in found : \A j \in found : j <= i
                  IN  /\ snapshots' = SubSeq(snapshots, 1, last)
                      /\ grid' = Replay(restoreSnapshot(grid, snapshots[last]), history',
                                        snapshots[last].historyLength)
            /\ \A i \in 1..Len(snapshots') :
                  snapshots'[i].historyLength <= Len(history')

\* C23: after every backtrack the snapshot restored, if any, is the most
\* recently captured one whose history length is at most the new history
\* length, and all later snapshots are discarded: no retained snapshot
\* records a history length greater than the current one, also when no
\* snapshot qualified and the grid was rebuilt by full replay.
C23_BacktrackKeepsEarlierSnapshots ==
    [][BacktrackKeepsEarlierSnapshots]_vars

\* C29: every backtrack performed by generate() on a non-empty history
\* removes at least one history entry, for every value of
\* recentContradictions and every history length, length 1 included.
C29_BacktrackRemovesAnEntry ==
    [][BacktrackStep => Removed >= 1]_vars

\* The snapshot list after saveSnapshot() on grid g at history length n
Captured(snaps, g, n) ==
    LET pushed == Append(snaps, [ grid |-> g, historyLength |-> n ])
    IN  IF Len(pushed) > 5 THEN SubSeq(pushed, 2, Len(pushed)) ELSE pushed

\* What a step does to the snapshots
SnapshotsFollowHistory ==
    /\ pc = "for" =>
          snapshots' = IF Len(history') % 10 = 0
                       THEN Captured(<< >>, grid', Len(history')) ELSE << >>
    /\ (pc = "while" /\ pc' = "collapsed") =>
          /\ Len(history') = Len(history) + 1
          /\ snapshots' = IF Len(history') % 10 = 0
                          THEN Captured(snapshots, grid', Len(history')) ELSE snapshots
    /\ (pc \notin { "for", "while" } \/ pc' # "collapsed") /\ pc # "for" =>
          /\ Len(snapshots') <= Len(snapshots)
          /\ snapshots' = SubSeq(snapshots, 1, Len(snapshots'))

\* C24: a snapshot is captured exactly when a recorded collapse brings the
\* history length to a positive multiple of 10; it records that length and a
\* copy of the grid, which later changes to the grid do not change; at most
\* 5 snapshots are retained, the oldest being dropped first.
C24_SnapshotsEveryTenthDecision ==
    /\ [](Len(snapshots) <= 5)
    /\ [](\A i \in 1..Len(snapshots) :
            snapshots[i].historyLength > 0 /\ snapshots[i].historyLength % 10 = 0)
    /\ [][SnapshotsFollowHistory]_vars

\* The sixth snapshot was captured and the one of history length 10 dropped
C24_Witness ==
    /\ Len(snapshots) = 5 /\ Len(history) = 60
    /\ snapshots[1].historyLength = 20 /\ snapshots[5].historyLength = 60
    /\ snapshots[5].grid = grid

\* C25: rollback through a snapshot is equivalent to full replay: after any
\* backtrack the grid equals the grid obtained by reinitialising every cell
\* and then, for each remaining history entry in order, forcing the cell to
\* the entry's tile and running propagation, whether or not a snapshot was
\* restored.
C25_RollbackEqualsFullReplay ==
    [][BacktrackStep => grid' = Replay(initializeGrid, history', 0)]_vars

\* C26: at every main-loop boundary at which no contradiction cell exists,
\* each uncollapsed cell is consistent with the committed decisions around
\* it: for every collapsed neighbour in direction d holding tile T, the
\* cell's possibility set is contained in adjacency[T][opposite(d)].
C26_UncollapsedCellsConsistent ==
    (pc = "while" /\ ~getContradictionCell(grid)) =>
        \A p \in AllPos :
            ~Cell(p).collapsed => Cell(p).possibleTiles = Constrained(p)

\* C27: if collapseCell chose a tile that passed the look-ahead, the
\* propagation pass that follows leaves no uncollapsed cell with an empty
\* possibility set.
C27_LookaheadSound ==
    [][(pc = "collapsed" /\ PassesLookahead(cur, Cell(cur).tileId)) =>
          \A p \in AllPos :
              grid'[p.y][p.x].collapsed \/ grid'[p.y][p.x].possibleTiles # {}]_vars

\* The cells named by the entries of history
Named == { Pos(history[i].x, history[i].y) : i \in 1..Len(history) }

\* C28: at every main-loop boundary within an attempt, history and the grid
\* agree: the collapsed cells are exactly the cells named by history
\* entries, no cell is named by two entries, and each collapsed cell's tile
\* id is the tile of its entry; cells narrowed to one possibility by
\* propagation are not in history.
C28_HistoryAndGridAgree ==
    pc = "while" =>
        /\ \A p \in AllPos : Cell(p).collapsed <=> p \in Named
        /\ \A i, j \in 1..Len(history) :
              (history[i].x = history[j].x /\ history[i].y = history[j].y) => i = j
        /\ \A i \in 1..Len(history) :
              Cell(Pos(history[i].x, history[i].y)).tileId = history[i].tileId

\* After a backtrack that restored a snapshot and took entries off the
\* history, next to a cell that propagation has narrowed to one tile
C28_Witness ==
    /\ pc = "while" /\ backtracks > 0
    /\ snapshots # << >> /\ Len(history) >= snapshots[Len(snapshots)].historyLength
    /\ \E p \in AllPos : ~Cell(p).collapsed /\ Cardinality(Cell(p).possibleTiles) = 1

\* C30: at most one call of generateWFC is awaiting its generation at any
\* time; a call made while another is awaiting returns and leaves the
\* number of generators and isGenerating as they were; and every call that
\* set isGenerating leaves, when it returns, the flag false and the button
\* enabled, whether it displayed an image, threw or rejected the grid size.
Awaiting == { c \in CallIds : calls[c].pc = "awaiting" }

ReturnsNow(c) == calls[c].pc # "returned" /\ calls'[c].pc = "returned"

CallDuringGenerationReturns ==
    \A c \in CallIds :
       (calls[c].pc = "idle" /\ calls'[c].pc # "idle" /\ Awaiting # {})
          => /\ calls'[c].pc = "returned"
             /\ generators' = generators
             /\ isGenerating' = isGenerating

FlagResetOnReturn ==
    \A c \in CallIds :
       (ReturnsNow(c) /\ calls'[c].setFlag)
          => /\ isGenerating' = FALSE
             /\ generateWfcBtn'.disabled = FALSE

C30_OneGenerationAtATime ==
    /\ [](Cardinality(Awaiting) <= 1)
    /\ [][CallDuringGenerationReturns /\ FlagResetOnReturn]_vars

C30_Witness ==
    /\ \E a, c \in CallIds :
          /\ a < c
          /\ calls[a].pc = "awaiting"
          /\ calls[c] = Returned(FALSE, "generating")
    /\ \E c \in CallIds : calls[c] = Returned(TRUE, "bad size")
    /\ \E c \in CallIds : calls[c] = Returned(TRUE, "image")
    /\ isGenerating /\ generators = 2

=============================================================================
